---- MODULE Spec2Model ----
(***************************************************************************)
(* A model of map_plotter: osm_helpers.py (projection, zoom estimation,    *)
(* tile download) and osm_plotter.py (feature lookup, supertile assembly,  *)
(* main).                                                                  *)
(*                                                                         *)
(* The tile cache is the directory tiles/: a function from the tile key    *)
(* <<zoom, x, y>> (the file name tile_{zoom}_{x}_{y}.png) to the content   *)
(* of the file.  What the network answers is an input of each call.        *)
(***************************************************************************)
EXTENDS Integers, Sequences, FiniteSets, TLC

VARIABLES
    tiles,      \* the directory tiles/: tile key -> file content
    requests,   \* tile key -> the outcomes of the GETs issued for its URL
    last,       \* the last call on the cache, with what it returned
    batch,      \* the call of download_map_data_nominatim, with its result
    proj,       \* a point, its tile and the corner num2deg gives for the tile
    zq,         \* two bounding boxes and the zoom level of each
    run         \* a run of main: its position, its data and what it wrote

vars == <<tiles, requests, last, batch, proj, zq, run>>

cacheVars == <<tiles, requests, last>>

-----------------------------------------------------------------------------
(* Degrees are counted in units of 0.0001 degree; a point is <<lon, lat>>,   *)
(* as in GeoJSON.                                                           *)

PointA == <<134050, 525200>>     \* 13.4050 E, 52.5200 N

PointB == <<134080, 525200>>     \* 13.4080 E, 52.5200 N

PointD == <<134700, 525600>>     \* 13.4700 E, 52.5600 N

-----------------------------------------------------------------------------
(* Program constants *)

MAX_TILE_COUNT == 500

OSM_TILE_SIZE == 256

\* zoom_level = 17 in main
zoom_level == 17

-----------------------------------------------------------------------------
(* Bounds of the model *)

\* Spec: the calls name tiles among the first MaxTiles cells of GridCells
MaxTiles == 3

-----------------------------------------------------------------------------
(* Tile ranges *)

TileRange(x_min, x_max, y_min, y_max) ==
    [x_tile_min |-> x_min, x_tile_max |-> x_max,
     y_tile_min |-> y_min, y_tile_max |-> y_max]

\* range(y_tile_min, y_tile_max+1) has this many elements (0 when inverted)
RangeLen(lo, hi) == IF hi >= lo THEN hi - lo + 1 ELSE 0

\* the (x, y) visited by the two nested loops
RangeTiles(r) ==
    {<<x, y>> : x \in r.x_tile_min .. r.x_tile_max,
                y \in r.y_tile_min .. r.y_tile_max}

\* the position of (x, y) in the loops' order: x outer, y inner
LoopPos(r, x, y) ==
    (x - r.x_tile_min) * RangeLen(r.y_tile_min, r.y_tile_max) + (y - r.y_tile_min)

\* tile_count = (x_tile_max-x_tile_min+1)*(y_tile_max-y_tile_min+1)
tile_count(r) ==
    (r.x_tile_max - r.x_tile_min + 1) * (r.y_tile_max - r.y_tile_min + 1)

\* a ceiling that already rejects MAX_TILE_COUNT tiles
OverCeilingGE(count) == count >= MAX_TILE_COUNT

\* if tile_count > MAX_TILE_COUNT
OverCeiling(count) == count > MAX_TILE_COUNT

\* tile_{zoom}_{x}_{y}.png under tiles/
TileKey(zoom, x, y) == <<zoom, x, y>>

-----------------------------------------------------------------------------
(* Files and images *)

\* resp.content of a whole answer: the server's image of that tile
Downloaded(key) == [kind |-> "download", of |-> key]

\* plt.imsave(tile_file, np.ones((256, 256, 3)))
Placeholder == [kind |-> "placeholder", of |-> <<>>]

\* open(tile_file, 'wb') with nothing written
EmptyFile == [kind |-> "empty", of |-> <<>>]

NoFile == [kind |-> "none", of |-> <<>>]

\* an existence test that finds no file
FileExistsNever(listing, key) == FALSE

\* an existence test that looks under the name with x and y exchanged
FileExistsSwapped(listing, key) == <<key[1], key[3], key[2]>> \in listing

\* tile_file.exists(), listing the names of the files of tiles/
FileExists(listing, key) == key \in listing

\* the tiles of the range that have no file
Missing(cache, r, zoom) ==
    LET listing == DOMAIN cache
    IN  {t \in RangeTiles(r) : ~FileExists(listing, TileKey(zoom, t[1], t[2]))}

\* The outcomes of requests.get(tile_url, stream=True, timeout=10) and of the
\* read of resp.content that follows it:
\*   "RequestException"  requests.get raises (timeout, DNS, refused)
\*   "ok"                resp.ok, and resp.content reads the whole body
\*   "not_ok"            a response whose status is not a success
\*   "content_error"     resp.ok, and the read of the streamed body raises
Outcomes == {"RequestException", "ok", "not_ok", "content_error"}

\* download_tile_file(tile_url, tile_file): ret is the value returned
\* ("None" when the function falls off its end), file what it wrote.
download_tile_file(outcome, key) ==
    CASE outcome = "RequestException" ->
            [raised |-> FALSE, ret |-> "False", file |-> NoFile]
      [] outcome = "ok" ->
            [raised |-> FALSE, ret |-> "True", file |-> Downloaded(key)]
      [] outcome = "not_ok" ->
            [raised |-> FALSE, ret |-> "None", file |-> NoFile]
      [] outcome = "content_error" ->
            \* open() has created the file when resp.content raises
            [raised |-> TRUE, ret |-> "None", file |-> EmptyFile]

\* not download_tile_file(...): False and None are both falsy
Falsy(ret) == ret \in {"False", "None"}

\* One pass of the inner loop body for a tile that has no file: the file it
\* leaves at tile_file.
FetchedFile(outcome, key) ==
    LET res == download_tile_file(outcome, key)
    IN  IF res.raised THEN res.file
        ELSE IF Falsy(res.ret) THEN Placeholder
        ELSE res.file

\* The position in the loops' order at which the call ends: that of the
\* first tile whose fetch raises, or the end of the range.
StopPos(missing, r, zoom, net) ==
    LET raising == {LoopPos(r, t[1], t[2]) :
                      t \in {u \in missing :
                                download_tile_file(net[u],
                                    TileKey(zoom, u[1], u[2])).raised}}
    IN  IF raising = {} THEN tile_count(r)
        ELSE CHOOSE p \in raising : \A q \in raising : p <= q

\* The tiles of the range a GET is issued for: those with no file that the
\* loops reach.
Fetched(missing, r, zoom, net) ==
    LET stop == StopPos(missing, r, zoom, net)
    IN  {t \in missing : LoopPos(r, t[1], t[2]) <= stop}

\* download_tiles_for_area(x_tile_min, x_tile_max, y_tile_min, y_tile_max, zoom)
\* with net the outcome of the GET of each tile of the range, were it issued.
DownloadResult(cache, log, r, zoom, net) ==
    IF OverCeiling(tile_count(r))
    THEN [tiles |-> cache, requests |-> log, raised |-> FALSE,
          printed |-> "ERROR zoom value too high", gets |-> {}]
    ELSE
      LET got     == Fetched(Missing(cache, r, zoom), r, zoom, net)
          gotKeys == {TileKey(zoom, t[1], t[2]) : t \in got}
          \* the files written, over the files there were
          written == [k \in gotKeys |-> FetchedFile(net[<<k[2], k[3]>>], k)]
          issued  == [k \in gotKeys |->
                        (IF k \in DOMAIN log THEN log[k] ELSE <<>>)
                            \o <<net[<<k[2], k[3]>>]>>]
      IN  [tiles |-> IF got = {} THEN cache ELSE written @@ cache,
           requests |-> IF got = {} THEN log ELSE issued @@ log,
           raised |-> \E k \in gotKeys :
                          download_tile_file(net[<<k[2], k[3]>>], k).raised,
           printed |-> "",
           gets |-> gotKeys]

download_tiles_for_area(r, zoom, net) ==
    LET res == DownloadResult(tiles, requests, r, zoom, net)
    IN  /\ tiles' = res.tiles
        /\ requests' = res.requests
        /\ last' = [op |-> "download", range |-> r, zoom |-> zoom,
                    raised |-> res.raised, printed |-> res.printed,
                    gets |-> res.gets, value |-> <<>>]
        /\ UNCHANGED <<batch, proj, zq, run>>

-----------------------------------------------------------------------------
(* Supertile *)

\* plt.imread(tile): the RGB channels and the alpha channel of the image.
\* A served tile is an RGB image; imsave writes the placeholder as RGBA.
imread(file) ==
    CASE file.kind = "download" ->
            [raised |-> FALSE, rgb |-> <<"tile", file.of>>, alpha |-> "none"]
      [] file.kind = "placeholder" ->
            [raised |-> FALSE, rgb |-> <<"ones">>, alpha |-> "ones"]
      [] file.kind = "empty" ->
            [raised |-> TRUE, rgb |-> <<>>, alpha |-> "none"]

\* tile_img[:, :, :3]
RGB(img) == img.rgb

\* supertile[i*256 : i*256+256, j*256 : j*256+256, :]
BlockAt(i, j) == <<i * OSM_TILE_SIZE, j * OSM_TILE_SIZE>>

\* combine_supertile(x_tile_min, x_tile_max, y_tile_min, y_tile_max, zoom):
\* the raster is its shape and, for each block of 256 x 256 pixels, named by
\* the pixel offset of its corner, the content of the block.
CombineResult(cache, r, zoom) ==
    LET rows == r.y_tile_max - r.y_tile_min + 1
        cols == r.x_tile_max - r.x_tile_min + 1
        found == RangeTiles(r) \ Missing(cache, r, zoom)
        unreadable ==
            \E t \in found : imread(cache[TileKey(zoom, t[1], t[2])]).raised
        written == [t \in found |-> RGB(imread(cache[TileKey(zoom, t[1], t[2])]))]
        block == [b \in {BlockAt(i, j) : i \in 0 .. rows - 1, j \in 0 .. cols - 1} |->
                    LET src == {t \in DOMAIN written :
                                  BlockAt(t[2] - r.y_tile_min, t[1] - r.x_tile_min) = b}
                    IN  IF src = {} THEN <<"zeros">>
                        ELSE written[CHOOSE t \in src : TRUE]]
    IN  IF unreadable
        THEN [raised |-> TRUE, value |-> <<>>]
        ELSE [raised |-> FALSE,
              value |-> [shape |-> <<rows * OSM_TILE_SIZE, cols * OSM_TILE_SIZE, 3>>,
                         block |-> block]]

combine_supertile(r, zoom) ==
    LET res == CombineResult(tiles, r, zoom)
    IN  /\ last' = [op |-> "combine", range |-> r, zoom |-> zoom,
                    raised |-> res.raised, printed |-> "",
                    gets |-> {}, value |-> res.value]
        /\ UNCHANGED <<tiles, requests, batch, proj, zq, run>>

-----------------------------------------------------------------------------
(* Projection.  The floats of the program are fixed-point numbers here:    *)
(* degrees in units of 0.0001 degree, and the global x and y of deg2xy as  *)
(* fractions of the width of the world in units of 2^-24, rounded down.    *)
(* The logarithm, tangent, arctangent and hyperbolic sine are tabulated    *)
(* at the latitudes and at the tile rows the model uses.                   *)

DegUnit == 10 ^ 4

FracUnit == 2 ^ 24

\* <<lat, floor(2^24 * (1 - ln(tan(lat) + 1/cos(lat)) / pi) / 2)>>
MercSamples ==
    << 
       <<-850512, 16777254>>, <<-850511, 16777200>>, <<-409799, 10485760>>,
       <<-409798, 10485753>>, <<-330000, 10019358>>, <<-1, 8388612>>,
       <<0, 8388608>>, <<1, 8388603>>, <<409798, 6291462>>,
       <<409799, 6291455>>, <<525200, 5502174>>, <<525205, 5502136>>,
       <<525300, 5501408>>, <<525600, 5499109>>, <<665132, 4194311>>,
       <<665133, 4194299>>, <<850511, 15>>, <<850512, -39>>,
       <<860000, -568964>> >>

Latitudes == {MercSamples[i][1] : i \in 1 .. Len(MercSamples)}

\* y / n of deg2xy, in units of 2^-24
MercFrac(lat_deg) ==
    MercSamples[CHOOSE i \in 1 .. Len(MercSamples) : MercSamples[i][1] = lat_deg][2]

RECURSIVE ScaleDown(_, _, _)
\* <<floor(r * 2^z / d), (r * 2^z) mod d>> for 0 <= r < d, by doubling
ScaleDown(r, d, z) ==
    IF z = 0 THEN <<0, r>>
    ELSE LET h == ScaleDown(r, d, z - 1)
         IN  <<2 * h[1] + (2 * h[2]) \div d, (2 * h[2]) % d>>

\* x / n of deg2xy, (lon_deg + 180.0) / 360.0, in units of 2^-24,
\* for lon_deg >= -180
LonFrac(lon_deg) ==
    LET a == lon_deg + 180 * DegUnit
        d == 360 * DegUnit
    IN  (a \div d) * FracUnit + ScaleDown(a % d, d, 24)[1]

\* deg2xy(lat_deg, lon_deg, zoom): x and y, times 2^(24 - zoom), rounded down
deg2xy(lat_deg, lon_deg, zoom) == <<LonFrac(lon_deg), MercFrac(lat_deg)>>

\* a conversion to the nearest integer
IntRound(scaled, unit) == (scaled + unit \div 2) \div unit

\* int(x) of a float given as floor(x * unit): towards zero.  A negative
\* float is never a whole number here (y of a latitude past the limit).
IntTrunc(scaled, unit) ==
    IF scaled >= 0 THEN scaled \div unit ELSE (scaled \div unit) + 1

\* deg2tile_coord(lat_deg, lon_deg, zoom): <<x, y>>
deg2tile_coord(lat_deg, lon_deg, zoom) ==
    LET xy   == deg2xy(lat_deg, lon_deg, zoom)
        unit == FracUnit \div (2 ^ zoom)
    IN  <<IntTrunc(xy[1], unit), IntTrunc(xy[2], unit)>>

\* the rows of the world are tabulated in steps of 1 / TileLatSteps
TileLatSteps == 2 ^ 6

\* floor(10^4 * degrees(arctan(sinh(pi * (1 - 2 * k / 64))))), k = 0 .. 128:
\* the rows of the world and as many rows south of it
TileLatSamples ==
    << 
       850511, 845413, 839792, 833595, 826762, 819231, 810932, 801787,
       791713, 780619, 768408, 754971, 740195, 723957, 706126, 686565,
       665132, 641681, 616063, 588137, 557765, 524827, 489224, 450890,
       409798, 365978, 319521, 270591, 219430, 166361, 111784, 56159,
       0, -56160, -111785, -166362, -219431, -270592, -319522, -365979,
       -409799, -450891, -489225, -524828, -557766, -588138, -616064, -641682,
       -665133, -686566, -706127, -723958, -740196, -754972, -768409, -780620,
       -791714, -801788, -810933, -819232, -826763, -833596, -839793, -845414,
       -850512, -855134, -859326, -863127, -866573, -869697, -872530, -875098,
       -877426, -879536, -881449, -883184, -884756, -886181, -887474, -888645,
       -889707, -890669, -891542, -892333, -893050, -893700, -894289, -894823,
       -895307, -895746, -896144, -896504, -896831, -897128, -897396, -897640,
       -897861, -898061, -898242, -898406, -898556, -898691, -898813, -898924,
       -899025, -899116, -899199, -899274, -899342, -899403, -899459, -899510,
       -899556, -899597, -899635, -899669, -899700, -899728, -899754, -899777,
       -899798, -899817, -899834, -899849, -899864, -899876, -899888, -899898,
       -899908 >>

\* num2deg(x_tile, y_tile, zoom): <<lat_deg, lon_deg>>, rounded down to
\* 0.0001 degree, for the zooms whose rows are tabulated (zoom <= 6)
num2deg(x_tile, y_tile, zoom) ==
    LET n == 2 ^ zoom
    IN  <<TileLatSamples[y_tile * (TileLatSteps \div n) + 1],
          (x_tile * 360 * DegUnit) \div n - 180 * DegUnit>>

-----------------------------------------------------------------------------
(* Zoom estimation *)

RECURSIVE CeilLog2(_, _)
\* np.ceil(np.log2(num / den)) for num > 0 and den > 0
CeilLog2(num, den) ==
    IF num > den THEN CeilLog2(num, 2 * den) + 1
    ELSE IF 2 * num <= den THEN CeilLog2(2 * num, den) - 1
    ELSE 0

Min(a, b) == IF a <= b THEN a ELSE b

Max(a, b) == IF a >= b THEN a ELSE b

\* a clamp with the upper limit only
ClampAbove(zoom) == Min(zoom, 18)

\* zoom_level = np.min([zoom_level, 18]); zoom_level = np.max([zoom_level, 0])
Clamp(zoom) == Max(Min(zoom, 18), 0)

\* calculate_zoom_level(min_lon, max_lon, min_lat, max_lat), for max > min:
\* 360 and 170.1023 are in units of 0.0001 degree, as the spans
calculate_zoom_level(min_lon, max_lon, min_lat, max_lat) ==
    LET z_lon == CeilLog2(360 * DegUnit, max_lat - min_lat)
        z_lat == CeilLog2(1701023, max_lon - min_lon)
    IN  Clamp(Min(z_lon, z_lat) + 1)

-----------------------------------------------------------------------------
(* Feature lookup *)

\* A dict of the lookup's JSON: the keys it has, and the values of the keys
\* the program reads ("" and <<>> for a key it has not).
Dict(keys, type, coordinates) ==
    [keys |-> keys, type |-> type, coordinates |-> coordinates]

\* {}
EmptyDict == Dict({}, "", <<>>)

\* 'coordinates' in d
HasKey(d, k) == k \in d.keys

\* det = {'type': '', 'geojson': {}}
EmptyDet == [keys |-> {"type", "geojson"}, type |-> "", geojson |-> EmptyDict]

\* lookup_geojson_by_id(osm_id, element_type), resp being what
\* requests.get(url, params=payload, timeout=10) does:
\*   "RequestException"  it raises (no try around it)
\*   "not_ok"            a response whose status is not a success
\*   "malformed"         resp.ok, and json.loads(resp.content) raises
\*   "empty"             resp.ok, and the content is the JSON list []
\*   "found"             resp.ok, and cont[0] has 'type' and 'geojson'
lookup_geojson_by_id(osm_id, element_type, resp) ==
    CASE resp.kind = "RequestException" -> [raised |-> TRUE, det |-> EmptyDet]
      [] resp.kind = "not_ok" -> [raised |-> FALSE, det |-> EmptyDet]
      [] resp.kind = "malformed" -> [raised |-> TRUE, det |-> EmptyDet]
      [] resp.kind = "empty" -> [raised |-> FALSE, det |-> EmptyDet]
      [] resp.kind = "found" ->
            [raised |-> FALSE,
             det |-> [keys |-> {"type", "geojson"}, type |-> resp.type,
                      geojson |-> resp.geojson]]

\* data_dict = {'ways': {}, 'nodes': {}, 'way_coords': [], 'node_coords': []}
\* with the lookups made so far and whether an exception has ended the call
NewDataDict ==
    [ways |-> <<>>, nodes |-> <<>>, way_coords |-> <<>>, node_coords |-> <<>>,
     lookups |-> <<>>, raised |-> FALSE]

\* if 'geojson' in way_dict: ... way_dict['geojson']['coordinates']
\* (a KeyError when the geojson has no 'coordinates')
CoordinatesGuarded(det) == HasKey(det, "geojson")

\* One pass of a loop of download_map_data_nominatim, for a way
\* (element_type 'W') or a node ('N'); resps are the answers of the network
\* to the successive lookups of the call.
LookupPass(acc, osm_id, element_type, resps) ==
    LET res  == lookup_geojson_by_id(osm_id, element_type,
                                     resps[Len(acc.lookups) + 1])
        made == [acc EXCEPT !.lookups = Append(@, <<element_type, osm_id>>)]
        kept == IF element_type = "W"
                THEN [made EXCEPT !.ways = (osm_id :> res.det) @@ @]
                ELSE [made EXCEPT !.nodes = (osm_id :> res.det) @@ @]
    IN  IF res.raised THEN [made EXCEPT !.raised = TRUE]
        ELSE IF ~CoordinatesGuarded(res.det) THEN kept
        ELSE IF ~HasKey(res.det.geojson, "coordinates")
             THEN [kept EXCEPT !.raised = TRUE]      \* KeyError
        ELSE IF element_type = "W"
             THEN [kept EXCEPT !.way_coords = @ \o res.det.geojson.coordinates]
             ELSE [kept EXCEPT !.node_coords = @ \o res.det.geojson.coordinates]

RECURSIVE LookupLoop(_, _, _, _)
\* for way in way_ids: ... (and for node in node_ids), from the i-th id on
LookupLoop(acc, ids, element_type, resps) ==
    IF ids = <<>> \/ acc.raised THEN acc
    ELSE LookupLoop(LookupPass(acc, Head(ids), element_type, resps),
                    Tail(ids), element_type, resps)

\* download_map_data_nominatim(way_ids, node_ids)
download_map_data_nominatim(way_ids, node_ids, resps) ==
    LookupLoop(LookupLoop(NewDataDict, way_ids, "W", resps), node_ids, "N", resps)

-----------------------------------------------------------------------------
(* Spec: any sequence of downloads and assemblies over a small grid *)

GridCells == << <<0, 0>>, <<1, 0>>, <<0, 1>>, <<1, 1>>, <<2, 0>>, <<2, 1>> >>

Cells == {GridCells[i] : i \in 1 .. MaxTiles}

\* the valid ranges (min <= max on both axes) whose tiles are all in Cells
ValidRanges ==
    {r \in {TileRange(t[1], u[1], t[2], u[2]) : t \in Cells, u \in Cells} :
        /\ r.x_tile_min <= r.x_tile_max
        /\ r.y_tile_min <= r.y_tile_max
        /\ RangeTiles(r) \subseteq Cells}

\* what the network answers for each tile of the range that has no file
Nets(cache, r, zoom) ==
    [Missing(cache, r, zoom) -> Outcomes]

NoCall == [op |-> "none", range |-> TileRange(0, 0, 0, 0), zoom |-> 0,
           raised |-> FALSE, printed |-> "", gets |-> {}, value |-> <<>>]

NoBatch ==
    [called |-> FALSE, way_ids |-> <<>>, node_ids |-> <<>>, resps |-> <<>>,
     data_dict |-> NewDataDict]

NoProjection ==
    [called |-> FALSE, lat |-> 0, lon |-> 0, zoom |-> 0,
     tile |-> <<0, 0>>, deg |-> <<0, 0>>]

Box(min_lon, max_lon, min_lat, max_lat) ==
    [min_lon |-> min_lon, max_lon |-> max_lon,
     min_lat |-> min_lat, max_lat |-> max_lat]

NoEstimate ==
    [called |-> FALSE, a |-> Box(0, 0, 0, 0), b |-> Box(0, 0, 0, 0),
     zoom_a |-> 0, zoom_b |-> 0]

\* main is not started; args.json is the manifest, draw_data its content
NoRun ==
    [pc |-> "idle", exists |-> FALSE, draw_data |-> [ways |-> <<>>, nodes |-> <<>>],
     map_data |-> NewDataDict, range |-> TileRange(0, 0, 0, 0),
     printed |-> {}, assembled |-> FALSE, figs |-> {}]

Init ==
    /\ tiles = <<>>
    /\ requests = <<>>
    /\ last = NoCall
    /\ batch = NoBatch
    /\ proj = NoProjection
    /\ zq = NoEstimate
    /\ run = NoRun

Download ==
    \E r \in ValidRanges : \E net \in Nets(tiles, r, zoom_level) :
        download_tiles_for_area(r, zoom_level, net)

Combine ==
    \E r \in ValidRanges : combine_supertile(r, zoom_level)

Next == Download \/ Combine

Spec == Init /\ [][Next]_vars

-----------------------------------------------------------------------------
(* SpecCeiling: downloads of ranges at and over the ceiling of 500 tiles *)

\* the 25 x 20 window starts at column 0 .. MaxShift
MaxShift == 1

CeilingRanges ==
    {TileRange(s, s + 24, 0, 19) : s \in 0 .. MaxShift}          \* 500 tiles
    \cup {TileRange(0, 25, 0, 19)}                               \* 520 tiles
    \cup {TileRange(0, 166, 0, 2)}                               \* 501 tiles
    \cup {TileRange(30, 0, 30, 0)}                               \* (-29) * (-29)

NetPatterns == {"all refused", "mixed", "cut"}

\* what the network answers for tile (x, y) under a pattern
PatternOutcome(pattern, x, y) ==
    CASE pattern = "all refused" -> "RequestException"
      [] pattern = "mixed" ->
            IF (x + y) % 3 = 0 THEN "ok"
            ELSE IF (x + y) % 3 = 1 THEN "RequestException" ELSE "not_ok"
      [] pattern = "cut" ->
            IF x = 12 /\ y = 7 THEN "content_error" ELSE "ok"

PatternNet(pattern, r) ==
    [t \in RangeTiles(r) |-> PatternOutcome(pattern, t[1], t[2])]

DownloadAtCeiling ==
    \E r \in CeilingRanges : \E pattern \in NetPatterns :
        download_tiles_for_area(r, zoom_level, PatternNet(pattern, r))

NextCeiling == DownloadAtCeiling

SpecCeiling == Init /\ [][NextCeiling]_vars

-----------------------------------------------------------------------------
(* SpecLookup: one call of download_map_data_nominatim *)

\* way_ids has at most MaxWays ids, node_ids at most MaxNodes
MaxWays == 2

MaxNodes == 1

OsmIds == {1, 2}

IdLists(n) == UNION {[1 .. k -> OsmIds] : k \in 0 .. n}

LineString(coordinates) ==
    Dict({"type", "coordinates"}, "LineString", coordinates)

\* the coordinates of a Point are its longitude and its latitude
Point(p) == Dict({"type", "coordinates"}, "Point", p)

Found(type, geojson) == [kind |-> "found", type |-> type, geojson |-> geojson]

Failure(kind) == [kind |-> kind, type |-> "", geojson |-> EmptyDict]

Failures ==
    {Failure("RequestException"), Failure("not_ok"),
     Failure("malformed"), Failure("empty")}

Responses ==
    Failures \cup {Found("motorway", LineString(<<PointA, PointB>>)),
                   Found("traffic_signals", Point(PointB))}

Batch ==
    /\ ~batch.called
    /\ \E way_ids \in IdLists(MaxWays) : \E node_ids \in IdLists(MaxNodes) :
         \E resps \in [1 .. Len(way_ids) + Len(node_ids) -> Responses] :
            batch' = [called |-> TRUE, way_ids |-> way_ids, node_ids |-> node_ids,
                      resps |-> resps,
                      data_dict |->
                          download_map_data_nominatim(way_ids, node_ids, resps)]
    /\ UNCHANGED <<cacheVars, proj, zq, run>>

NextLookup == Batch

SpecLookup == Init /\ [][NextLookup]_vars

-----------------------------------------------------------------------------
(* The claims on the feature lookup *)

\* the lookups a call is to make: the ways in list order, then the nodes
LookupsDue(way_ids, node_ids) ==
    [i \in 1 .. Len(way_ids) |-> <<"W", way_ids[i]>>]
        \o [i \in 1 .. Len(node_ids) |-> <<"N", node_ids[i]>>]

RECURSIVE SumCoordinates(_)
SumCoordinates(resps) ==
    IF resps = <<>> THEN 0
    ELSE (IF Head(resps).kind = "found"
          THEN Len(Head(resps).geojson.coordinates) ELSE 0)
         + SumCoordinates(Tail(resps))

\* C4: a lookup that fails (transport error, non-success answer, empty or
\* malformed answer) yields the empty record {type: '', geojson: {}} for its
\* id and is not propagated: the call makes the lookups of all the ids and
\* returns.
C4_LookupFailureContained ==
    batch.called =>
        LET due == LookupsDue(batch.way_ids, batch.node_ids)
            d   == batch.data_dict
        IN  /\ ~d.raised
            /\ d.lookups = due
            /\ \A i \in 1 .. Len(due) :
                  (/\ batch.resps[i].kind # "found"
                   /\ \A j \in i + 1 .. Len(due) : due[j] # due[i]) =>
                      IF due[i][1] = "W"
                      THEN d.ways[due[i][2]] = EmptyDet
                      ELSE d.nodes[due[i][2]] = EmptyDet

\* C5: a call with N way ids and M node ids makes exactly N+M lookups, one
\* per id in list order, ways first, and returns way_coords and node_coords
\* whose lengths add up to the coordinate counts of the geometries found.
C5_BatchCounts ==
    batch.called =>
        LET d == batch.data_dict
        IN  /\ ~d.raised
            /\ d.lookups = LookupsDue(batch.way_ids, batch.node_ids)
            /\ Len(d.way_coords) + Len(d.node_coords)
                  = SumCoordinates(batch.resps)

-----------------------------------------------------------------------------
(* SpecProj: a point to its tile and back *)

\* the zooms are 0 .. MaxZoom
MaxZoom == 3

Longitudes ==
    {-1800000, -1799999, -900000, -1, 0, 1,
     134050, 134080, 134700, 900000, 1799999, 1800000}

\* the call is not made yet: the arguments are drawn, the result is empty
ProjectionInputs ==
    {[called |-> FALSE, lat |-> lat, lon |-> lon, zoom |-> zoom,
      tile |-> <<0, 0>>, deg |-> <<0, 0>>] :
        lat \in Latitudes, lon \in Longitudes, zoom \in 0 .. MaxZoom}

InitProj ==
    /\ tiles = <<>>
    /\ requests = <<>>
    /\ last = NoCall
    /\ batch = NoBatch
    /\ proj \in ProjectionInputs
    /\ zq = NoEstimate
    /\ run = NoRun

Project ==
    /\ ~proj.called
    /\ LET t == deg2tile_coord(proj.lat, proj.lon, proj.zoom)
       IN  proj' = [proj EXCEPT !.called = TRUE, !.tile = t,
                                !.deg = num2deg(t[1], t[2], proj.zoom)]
    /\ UNCHANGED <<cacheVars, batch, zq, run>>

NextProj == Project

SpecProj == InitProj /\ [][NextProj]_vars

\* |lat| is below the limit of the projection: south of the top edge of tile
\* row 0 and north of the bottom edge of the last row
InMercator(lat, zoom) ==
    /\ lat <= num2deg(0, 0, zoom)[1]
    /\ lat > num2deg(0, 2 ^ zoom, zoom)[1]

\* C8: for a latitude below the limit, num2deg of the tile deg2tile_coord
\* gives is the NW corner of the tile holding the point: the point lies
\* between that corner and the corner of tile (x+1, y+1), the west and the
\* north edges included, the east and the south edges not.
C8_RoundTrip ==
    (proj.called /\ InMercator(proj.lat, proj.zoom)) =>
        LET nw == proj.deg
            se == num2deg(proj.tile[1] + 1, proj.tile[2] + 1, proj.zoom)
        IN  /\ nw[2] <= proj.lon /\ proj.lon < se[2]
            /\ se[1] < proj.lat /\ proj.lat <= nw[1]

\* a point strictly inside a tile that is not tile (0, 0), at the deepest zoom
C8_Witness ==
    /\ proj.called
    /\ InMercator(proj.lat, proj.zoom)
    /\ proj.zoom = MaxZoom
    /\ proj.tile[1] > 0 /\ proj.tile[2] > 0
    /\ proj.deg[2] < proj.lon /\ proj.lat < proj.deg[1]

-----------------------------------------------------------------------------
(* SpecZoom: the zoom level of two bounding boxes *)

BoxLongitudes == {0, 1, 134050, 134700, 1800000, 7200000}

BoxLatitudes == {0, 1, 525200, 525600, 900000}

Boxes ==
    {Box(a, b, c, d) : a \in BoxLongitudes, b \in BoxLongitudes,
                       c \in BoxLatitudes, d \in BoxLatitudes}

\* max > min on both axes
ProperBoxes == {x \in Boxes : x.max_lon > x.min_lon /\ x.max_lat > x.min_lat}

ZoomOf(x) == calculate_zoom_level(x.min_lon, x.max_lon, x.min_lat, x.max_lat)

\* the calls are not made yet: the two boxes are drawn
EstimateInputs ==
    {[called |-> FALSE, a |-> a, b |-> b, zoom_a |-> 0, zoom_b |-> 0] :
        a \in ProperBoxes, b \in ProperBoxes}

InitZoom ==
    /\ tiles = <<>>
    /\ requests = <<>>
    /\ last = NoCall
    /\ batch = NoBatch
    /\ proj = NoProjection
    /\ zq \in EstimateInputs
    /\ run = NoRun

Estimate ==
    /\ ~zq.called
    /\ zq' = [zq EXCEPT !.called = TRUE,
                        !.zoom_a = ZoomOf(zq.a), !.zoom_b = ZoomOf(zq.b)]
    /\ UNCHANGED <<cacheVars, batch, proj, run>>

NextZoom == Estimate

SpecZoom == InitZoom /\ [][NextZoom]_vars

\* C7: calculate_zoom_level returns an integer in 0 .. 18 for every box with
\* max > min on both axes, and a box whose two spans are at least those of
\* another gets a zoom level no higher.
C7_ZoomRangeMonotone ==
    zq.called =>
        /\ zq.zoom_a \in 0 .. 18
        /\ zq.zoom_b \in 0 .. 18
        /\ (/\ zq.b.max_lon - zq.b.min_lon >= zq.a.max_lon - zq.a.min_lon
            /\ zq.b.max_lat - zq.b.min_lat >= zq.a.max_lat - zq.a.min_lat)
              => zq.zoom_b <= zq.zoom_a

\* the wider box gets a strictly lower level, neither level clamped
C7_Witness ==
    /\ zq.called
    /\ zq.b.max_lon - zq.b.min_lon > zq.a.max_lon - zq.a.min_lon
    /\ zq.b.max_lat - zq.b.min_lat > zq.a.max_lat - zq.a.min_lat
    /\ 0 < zq.zoom_b /\ zq.zoom_b < zq.zoom_a /\ zq.zoom_a < 18

-----------------------------------------------------------------------------
(* SpecMain: one run of main, statement by statement *)

WayResponses ==
    Failures \cup {Found("motorway", LineString(<<PointA, PointB>>)),
                   Found("motorway_link", LineString(<<PointA, PointD>>))}

NodeResponses == Failures \cup {Found("traffic_signals", Point(PointB))}

\* what the server answers to the lookups of a manifest, ways first
MainResponses(draw_data) ==
    LET n == Len(draw_data.ways)
        m == Len(draw_data.nodes)
    IN  {resps \in [1 .. n + m -> WayResponses \cup NodeResponses] :
            /\ \A i \in 1 .. n : resps[i] \in WayResponses
            /\ \A i \in n + 1 .. n + m : resps[i] \in NodeResponses}

MainInputs ==
    {[NoRun EXCEPT !.pc = "start", !.exists = e,
                   !.draw_data = [ways |-> w, nodes |-> n]] :
        e \in BOOLEAN, w \in IdLists(MaxWays), n \in IdLists(MaxNodes)}

InitMain ==
    /\ tiles = <<>>
    /\ requests = <<>>
    /\ last = NoCall
    /\ batch = NoBatch
    /\ proj = NoProjection
    /\ zq = NoEstimate
    /\ run \in MainInputs

\* if not args.json.exists(): print(...), and no return; then open(args.json)
\* raises for the file that does not exist
MainLoad ==
    /\ run.pc = "start"
    /\ run' = IF run.exists THEN [run EXCEPT !.pc = "lookup"]
              ELSE [run EXCEPT !.pc = "raised",
                               !.printed = @ \cup {"Provided json file does not exist. Returning"}]
    /\ UNCHANGED <<cacheVars, batch, proj, zq>>

\* map_data = download_map_data_nominatim(draw_data['ways'], draw_data['nodes'])
MainLookup ==
    /\ run.pc = "lookup"
    /\ \E resps \in MainResponses(run.draw_data) :
          LET map_data == download_map_data_nominatim(run.draw_data.ways,
                                                      run.draw_data.nodes, resps)
          IN  run' = [run EXCEPT !.map_data = map_data,
                                 !.pc = IF map_data.raised THEN "raised" ELSE "range"]
    /\ UNCHANGED <<cacheVars, batch, proj, zq>>

SeqMin(f, q) ==
    CHOOSE v \in {f[q[i]] : i \in 1 .. Len(q)} : \A i \in 1 .. Len(q) : v <= f[q[i]]

SeqMax(f, q) ==
    CHOOSE v \in {f[q[i]] : i \in 1 .. Len(q)} : \A i \in 1 .. Len(q) : v >= f[q[i]]

\* min_lon .. max_lat of the way coordinates (np.min of an empty list raises),
\* then the tile of the SW corner and the tile of the NE corner at zoom 17
MainRange ==
    /\ run.pc = "range"
    /\ LET way_coords == run.map_data.way_coords
           c0 == [c \in {way_coords[i] : i \in 1 .. Len(way_coords)} |-> c[1]]
           c1 == [c \in {way_coords[i] : i \in 1 .. Len(way_coords)} |-> c[2]]
           sw == deg2tile_coord(SeqMin(c1, way_coords), SeqMin(c0, way_coords),
                                zoom_level)
           ne == deg2tile_coord(SeqMax(c1, way_coords), SeqMax(c0, way_coords),
                                zoom_level)
       IN  run' = IF way_coords = <<>> THEN [run EXCEPT !.pc = "raised"]
                 ELSE [run EXCEPT !.pc = "download",
                                  !.range = TileRange(sw[1], ne[1], ne[2], sw[2])]
    /\ UNCHANGED <<cacheVars, batch, proj, zq>>

\* no GET is issued for a range over the ceiling
MainNets(r) ==
    IF OverCeiling(tile_count(r)) THEN {<<>>} ELSE Nets(tiles, r, zoom_level)

\* osm_helpers.download_tiles_for_area(...): the value it returns is not used
MainDownload ==
    /\ run.pc = "download"
    /\ \E net \in MainNets(run.range) :
          LET res == DownloadResult(tiles, requests, run.range, zoom_level, net)
          IN  /\ tiles' = res.tiles
              /\ requests' = res.requests
              /\ last' = [op |-> "download", range |-> run.range,
                          zoom |-> zoom_level, raised |-> res.raised,
                          printed |-> res.printed, gets |-> res.gets,
                          value |-> <<>>]
              /\ run' = [run EXCEPT
                            !.pc = IF res.raised THEN "raised" ELSE "combine",
                            !.printed = IF res.printed = "" THEN @
                                        ELSE @ \cup {res.printed}]
    /\ UNCHANGED <<batch, proj, zq>>

\* supertile = combine_supertile(...)
MainCombine ==
    /\ run.pc = "combine"
    /\ LET res == CombineResult(tiles, run.range, zoom_level)
       IN  /\ last' = [op |-> "combine", range |-> run.range,
                       zoom |-> zoom_level, raised |-> res.raised,
                       printed |-> "", gets |-> {}, value |-> res.value]
           /\ run' = [run EXCEPT
                         !.pc = IF res.raised THEN "raised" ELSE "plot",
                         !.assembled = ~res.raised]
    /\ UNCHANGED <<tiles, requests, batch, proj, zq>>

\* the figure: the supertile between the corners num2deg gives for
\* (x_tile_min, y_tile_max + 1) and (x_tile_max + 1, y_tile_min), the ways
\* and the nodes over it
Figure(supertile, r, map_data) ==
    [shape |-> supertile.shape,
     sw_tile |-> <<r.x_tile_min, r.y_tile_max + 1>>,
     ne_tile |-> <<r.x_tile_max + 1, r.y_tile_min>>,
     ways |-> DOMAIN map_data.ways, nodes |-> DOMAIN map_data.nodes]

\* fig, ax = plt.subplots() ... fig.savefig(fig_folder.joinpath(...))
MainSave ==
    /\ run.pc = "plot"
    /\ run' = [run EXCEPT !.pc = "done",
                          !.figs = @ \cup {Figure(last.value, run.range, run.map_data)}]
    /\ UNCHANGED <<cacheVars, batch, proj, zq>>

NextMain ==
    MainLoad \/ MainLookup \/ MainRange \/ MainDownload \/ MainCombine \/ MainSave

SpecMain == InitMain /\ [][NextMain]_vars

\* C10: in a run of main, when the range of the way coordinates has more than
\* 500 tiles and the download step has rejected it, no supertile is assembled
\* and no figure is written.
C10_CeilingStopsMain ==
    ("ERROR zoom value too high" \in run.printed) =>
        /\ ~run.assembled
        /\ run.figs = {}

-----------------------------------------------------------------------------
(* The claims on the tile cache *)

KeysOf(r, zoom) == {TileKey(zoom, t[1], t[2]) : t \in RangeTiles(r)}

\* C1: a call of download_tiles_for_area whose range has more than 500 tiles
\* issues no GET and leaves the cache exactly as it was, whatever the cache
\* held; a call whose range has 500 tiles or fewer is not rejected: it prints
\* no error and, when it returns, every tile of its range has a file.
C1_CeilingRejects ==
    [][last'.op = "download" =>
         IF tile_count(last'.range) > 500
         THEN /\ tiles' = tiles
              /\ requests' = requests
              /\ last'.gets = {}
              /\ ~last'.raised
         ELSE /\ last'.printed = ""
              /\ ~last'.raised =>
                    KeysOf(last'.range, last'.zoom) \subseteq DOMAIN tiles'
              /\ tile_count(last'.range) > 0 /\ tiles = <<>> => last'.gets # {}
      ]_vars

\* a range of 501 tiles was rejected while the cache held files and lacked
\* files of that range
C1_Witness ==
    /\ last.op = "download"
    /\ tile_count(last.range) = 501
    /\ last.printed # ""
    /\ tiles # <<>>
    /\ ~(KeysOf(last.range, last.zoom) \subseteq DOMAIN tiles)

\* C2: at most one GET is ever issued for a tile key, and a key a GET was
\* issued for has a file from then on, so every later call is a cache hit.
C2_AtMostOneRequest ==
    \A k \in DOMAIN requests : Len(requests[k]) <= 1 /\ k \in DOMAIN tiles

\* a call that fetched some tiles of its range and found the file of another,
\* left by an earlier failed transport
C2_Witness ==
    /\ last.op = "download"
    /\ last.gets # {}
    /\ \E k \in KeysOf(last.range, last.zoom) \ last.gets :
          k \in DOMAIN requests /\ requests[k] = <<"RequestException">>

\* C3: after download_tiles_for_area returns for a range within the ceiling,
\* every tile of the range has a file: the downloaded bytes when the answer
\* to its GET was a success, the white placeholder when the transport failed
\* (before or while the body was read) or the answer was not a success.
C3_FileForEveryTile ==
    (last.op = "download" /\ ~last.raised /\ last.printed = "") =>
        \A k \in KeysOf(last.range, last.zoom) :
            /\ k \in DOMAIN tiles
            /\ k \in DOMAIN requests =>
                  \A i \in 1 .. Len(requests[k]) :
                      tiles[k] = IF requests[k][i] = "ok"
                                 THEN Downloaded(k) ELSE Placeholder

\* C6: combine_supertile returns, for any valid range and any cache, a raster
\* of shape (rows*256, cols*256, 3) whose block at ((y-y_min)*256,
\* (x-x_min)*256) is the RGB of the cached tile (zoom, x, y) when its file
\* exists and zero when it does not, with no other block.
C6_SupertileBlocks ==
    last.op = "combine" =>
        LET r    == last.range
            rows == r.y_tile_max - r.y_tile_min + 1
            cols == r.x_tile_max - r.x_tile_min + 1
        IN  /\ ~last.raised
            /\ last.value.shape = <<rows * 256, cols * 256, 3>>
            /\ DOMAIN last.value.block =
                  {<<(t[2] - r.y_tile_min) * 256, (t[1] - r.x_tile_min) * 256>> :
                      t \in RangeTiles(r)}
            /\ \A t \in RangeTiles(r) :
                  last.value.block[<<(t[2] - r.y_tile_min) * 256,
                                     (t[1] - r.x_tile_min) * 256>>] =
                    IF TileKey(last.zoom, t[1], t[2]) \in DOMAIN tiles
                    THEN RGB(imread(tiles[TileKey(last.zoom, t[1], t[2])]))
                    ELSE <<"zeros">>

\* C9: a file of the cache is never deleted and never rewritten, and
\* combine_supertile leaves the whole cache as it was.
C9_CacheImmutable ==
    [][/\ \A k \in DOMAIN tiles : k \in DOMAIN tiles' /\ tiles'[k] = tiles[k]
       /\ last'.op = "combine" => tiles' = tiles
      ]_vars

\* a download found a placeholder in its range, kept it and fetched another
\* tile of the range with success
C9_Witness ==
    /\ last.op = "download"
    /\ \E k \in KeysOf(last.range, last.zoom) \ last.gets :
          k \in DOMAIN tiles /\ tiles[k] = Placeholder
    /\ \E k \in last.gets : tiles[k] = Downloaded(k)

====
